---- MODULE Spec2Model ----
(***************************************************************************)
(* A model of the LoL challenger-league ETL pipeline:                      *)
(*   etl/extract.py   (extract_data, _save_raw_backup)                     *)
(*   etl/transform.py (validate_data, transform_data)                      *)
(*   etl/load.py      (_get_engine, load_data)                             *)
(*   utils/alert.py   (send_slack_alert)                                   *)
(*   main.py          (run_pipeline)                                       *)
(*                                                                         *)
(* Encoding of values.  A numeric cell is an integer; the missing numeric  *)
(* value (pandas NaN) is the integer NaN below, which every arithmetic     *)
(* and comparison operator of this module treats as pandas does.  A text   *)
(* cell is a string; the missing text value is the string NullStr.         *)
(* win_rate is a float rounded to two decimals: it is kept in hundredths   *)
(* (75.00 is 7500).                                                        *)
(***************************************************************************)
EXTENDS Integers, Sequences, FiniteSets, TLC

\* ------------------------------------------------------------------ bounds
MaxRows == 2        \* rows of a table handed to load_data
MaxClock == 2       \* calls of load_data in one behaviour (the store's clock)
MaxRetries == 3     \* the largest retry bound extract_data is called with
MaxFactor == 3      \* the largest backoff factor extract_data is called with
MaxRuns == 1        \* runs of the pipeline that follow the first one

\* ------------------------------------------------------------------ values
NaN == -9999
NullStr == "NaN"
Scale == 100        \* .round(2): two decimals, kept as hundredths

TextColumns == {"player_name", "summoner_id"}

IsNull(col, v) == IF col \in TextColumns THEN v = NullStr ELSE v = NaN

\* ------------------------------------------------------------------ tables
\* A DataFrame: its column labels and its rows (each row a function on them).
DataFrame(columns, rows) == [columns |-> columns, rows |-> rows]

\* df.empty: no rows or no columns
Empty(df) == df.rows = <<>> \/ df.columns = {}

TargetColumns == {"player_name", "summoner_id", "lp", "wins", "losses"}
LoadColumns == TargetColumns \cup {"total_games", "win_rate"}

\* a + b on a numeric column
Add(a, b) == IF a = NaN \/ b = NaN THEN NaN ELSE a + b

\* numpy's round of n/d to the nearest integer, ties to the even one (d > 0)
RoundDiv(n, d) ==
    LET q == n \div d
        r == n % d
    IN  IF 2 * r < d THEN q
        ELSE IF 2 * r > d THEN q + 1
        ELSE IF q % 2 = 0 THEN q ELSE q + 1

\* a win_rate cut off after the second decimal instead of rounded
WinRateTruncated(wins, total_games) ==
    IF total_games # NaN /\ total_games > 0
    THEN (wins * 100 * Scale) \div total_games
    ELSE 0

\* np.where(total_games > 0, (wins / total_games * 100).round(2), 0.0), in hundredths
WinRate(wins, total_games) ==
    IF total_games # NaN /\ total_games > 0
    THEN RoundDiv(wins * 100 * Scale, total_games)
    ELSE 0

\* [Phase 3] of transform_data on one row: two columns added, the others kept
EnrichRow(r) ==
    LET total == Add(r.wins, r.losses)
    IN  [c \in DOMAIN r \cup {"total_games", "win_rate"} |->
            IF c = "total_games" THEN total
            ELSE IF c = "win_rate" THEN WinRate(r.wins, total)
            ELSE r[c]]

Enrich(df) ==
    DataFrame(df.columns \cup {"total_games", "win_rate"},
              [i \in DOMAIN df.rows |-> EnrichRow(df.rows[i])])

\* ------------------------------------------------------------------ validate_data
CriticalFields == {"player_name", "summoner_id", "lp"}

\* rows of df[(df["win_rate"] > 100) | (df["lp"] < 0)]; a comparison with NaN is False
InvalidLogic(df) ==
    {i \in DOMAIN df.rows :
        \/ (df.rows[i].win_rate # NaN /\ df.rows[i].win_rate > 100 * Scale)
        \/ (df.rows[i].lp # NaN /\ df.rows[i].lp < 0)}

validate_data(df) ==
    IF Empty(df) THEN FALSE
    ELSE IF {"win_rate", "lp"} \subseteq df.columns /\ InvalidLogic(df) # {} THEN FALSE
    ELSE IF CriticalFields \ df.columns # {} THEN FALSE
    ELSE IF \E i \in DOMAIN df.rows : \E c \in CriticalFields : IsNull(c, df.rows[i][c])
         THEN FALSE
    ELSE TRUE

\* ------------------------------------------------------------------ transform_data
\* schema_map: external field -> internal column
SchemaKeys == {"summonerName", "summonerId", "leaguePoints", "wins", "losses"}

SchemaMap(api_key) ==
    CASE api_key = "summonerName" -> "player_name"
      [] api_key = "summonerId" -> "summoner_id"
      [] api_key = "leaguePoints" -> "lp"
      [] api_key = "wins" -> "wins"
      [] api_key = "losses" -> "losses"

\* pd.DataFrame(raw_data): the columns are the keys of all records
RawColumns(raw) == UNION {DOMAIN raw[i] : i \in DOMAIN raw}

\* a cell the record does not fill is missing
Missing(col) == IF col \in TextColumns THEN NullStr ELSE NaN

\* "Unknown" if "name" in internal_name else 0; the 0 of a text column is "0"
Default(col) ==
    IF col = "player_name" THEN "Unknown"
    ELSE IF col \in TextColumns THEN "0" ELSE 0

\* [Phase 1]: the column of api_key after default injection or renaming
Cell(raw, i, api_key) ==
    IF api_key \notin RawColumns(raw) THEN Default(SchemaMap(api_key))
    ELSE IF api_key \in DOMAIN raw[i] THEN raw[i][api_key]
    ELSE Missing(SchemaMap(api_key))

\* the external field an internal column is mapped from
ApiKeyOf(col) == CHOOSE api_key \in SchemaKeys : SchemaMap(api_key) = col

\* [Phase 1]: every mapped column renamed or injected; a field that is not in
\* schema_map stays a column under its own label
Mapped(raw) ==
    LET kept == RawColumns(raw) \ SchemaKeys
        columns == TargetColumns \cup kept
    IN  DataFrame(columns,
            [i \in DOMAIN raw |->
                [c \in columns |->
                    IF c \in TargetColumns THEN Cell(raw, i, ApiKeyOf(c))
                    ELSE IF c \in DOMAIN raw[i] THEN raw[i][c]
                    ELSE NaN]])

\* a transform_data without `df = df[target_columns]`
ProjectAll(table, columns) == table

\* [Phase 2]: df = df[target_columns]
Project(table, columns) ==
    DataFrame(columns,
        [i \in DOMAIN table.rows |-> [c \in columns |-> table.rows[i][c]]])

\* [Phase 1] and [Phase 2]: mapping, then projection to the target columns
Normalize(raw) == Project(Mapped(raw), TargetColumns)

\* lp of a goes before lp of b in descending order; NaN goes last
Before(a, b) == a # NaN /\ (b = NaN \/ a > b)

RECURSIVE InsertByLp(_, _)
InsertByLp(r, sorted) ==
    IF sorted = <<>> THEN <<r>>
    ELSE IF Before(r.lp, Head(sorted).lp) THEN <<r>> \o sorted
    ELSE <<Head(sorted)>> \o InsertByLp(r, Tail(sorted))

RECURSIVE SortRows(_)
SortRows(rows) ==
    IF rows = <<>> THEN <<>>
    ELSE InsertByLp(rows[Len(rows)], SortRows(SubSeq(rows, 1, Len(rows) - 1)))

\* a return without the sort
SortSkipped(df) == df

\* [Phase 5]: df.sort_values(by="lp", ascending=False).reset_index(drop=True)
SortByLp(df) == DataFrame(df.columns, SortRows(df.rows))

\* `if not validate_data(df): raise` lets every table through
GateAlwaysOpen(df) == TRUE

\* [Phase 4]: the table goes on only if validate_data accepts it
GateOpen(df) == validate_data(df)

\* ------------------------------------------------------------------ state
VARIABLES
    DB_URL,       \* environment: the store's connection string ("" when unset)
    API_KEY,      \* environment: RIOT_API_KEY ("" when unset)
    retries,      \* extract_data's retry bound
    backoff_factor,
    attempt,      \* the loop variable of extract_data
    exPc,         \* position inside extract_data
    exErr,        \* the exception extract_data raised, or "none"
    log,          \* what extract_data did on the network and the clock: GETs and sleeps
    response,     \* the body of the latest answer with status 200
    backup,       \* data/raw/challenger_raw.json
    backupWrites, \* writes of the backup by the current call
    raw_data,     \* what extract_data returned
    SLACK_WEBHOOK_URL, \* environment ("" when unset)
    pc,           \* position inside run_pipeline
    df,           \* the table transform_data is building, then clean_df
    gate,         \* what validate_data answered in this run, or "none"
    stages,       \* the stages this run has started, in order
    alerts,       \* the calls of send_slack_alert in this run
    error,        \* the exception that reached run_pipeline's handler, or "none"
    exitStatus,   \* <<>> while the process runs, then <<its exit status>>
    dbAtStart,    \* the store when the run started
    runs,         \* runs started so far
    db,           \* the store as committed: target relation, staging relation
    txn,          \* the open transaction's view of the store
    engine,       \* "none", "open" or "disposed"
    ldPc,         \* position inside load_data
    ldDf,         \* the table load_data was called with
    ldFailedAt,   \* the step of load_data at which the store failed, or "none"
    now,          \* the store's clock (CURRENT_TIMESTAMP of the transaction)
    dbBefore,     \* the store when load_data was called
    repeated      \* this call has the table of the call before it, which committed

envVars == <<DB_URL, API_KEY, SLACK_WEBHOOK_URL>>
exVars == <<retries, backoff_factor, attempt, exPc, exErr, log, response, backup, backupWrites,
           raw_data>>
ldVars == <<db, txn, engine, ldPc, ldDf, ldFailedAt, now, dbBefore, repeated>>
ppVars == <<pc, df, gate, stages, alerts, error, exitStatus, dbAtStart, runs>>
vars == <<envVars, exVars, ldVars, ppVars>>

\* ------------------------------------------------------------------ extract.py
SomeKey == "RGAPI-key"
ApiKeys == {"", SomeKey}

\* a response body: the JSON object, with or without its "entries" key
Payload(id, hasEntries, entries) ==
    [id |-> id, hasEntries |-> hasEntries, entries |-> entries]

NoPayload == Payload("none", FALSE, <<>>)

\* payload.get("entries", [])
Entries(payload) == IF payload.hasEntries THEN payload.entries ELSE <<>>

RECURSIVE Pow(_, _)
Pow(b, n) == IF n = 0 THEN 1 ELSE b * Pow(b, n - 1)

\* wait_time = backoff_factor**attempt
WaitTime(factor, k) == Pow(factor, k)

Get(status) == [ev |-> "GET", val |-> status]
Sleep(secs) == [ev |-> "sleep", val |-> secs]

NetworkError == 0                   \* a GET that raised instead of answering
ErrorStatuses == {401, 500}         \* raise_for_status() raises HTTPError
OtherStatuses == {204}              \* neither 200 nor 429 nor an error status

ExtractIdle ==
    /\ retries = 0
    /\ backoff_factor = 0
    /\ attempt = 0
    /\ exPc = "idle"
    /\ exErr = "none"
    /\ log = <<>>
    /\ response = NoPayload
    /\ backup = NoPayload
    /\ backupWrites = 0
    /\ raw_data = <<>>

\* a loop over range(retries + 1): one pass too many
NextAttemptInclusive ==
    IF attempt + 1 < retries + 1
    THEN /\ attempt' = attempt + 1
         /\ UNCHANGED <<exPc, exErr>>
    ELSE /\ exPc' = "raised"
         /\ exErr' = "API_RATE_LIMIT_EXCEEDED"
         /\ UNCHANGED attempt

\* the end of one pass of `for attempt in range(retries)` that did not return or
\* raise: the next pass, or after the last one raise Exception("API_RATE_LIMIT_EXCEEDED")
NextAttempt ==
    IF attempt + 1 < retries
    THEN /\ attempt' = attempt + 1
         /\ UNCHANGED <<exPc, exErr>>
    ELSE /\ exPc' = "raised"
         /\ exErr' = "API_RATE_LIMIT_EXCEEDED"
         /\ UNCHANGED attempt

\* except requests.exceptions.RequestException: raise on the last attempt only
Caught(err) ==
    IF attempt = retries - 1
    THEN /\ exPc' = "raised"
         /\ exErr' = err
         /\ UNCHANGED attempt
    ELSE NextAttempt

\* extract_data(retries, backoff_factor) up to the first GET
extract_begin(n, factor) ==
    /\ exPc \in {"idle", "returned", "raised"}
    /\ retries' = n
    /\ backoff_factor' = factor
    /\ attempt' = 0
    /\ log' = <<>>
    /\ backupWrites' = 0
    /\ raw_data' = <<>>
    /\ IF API_KEY = ""
       THEN exPc' = "raised" /\ exErr' = "API_KEY_MISSING"
       ELSE IF n <= 0
       THEN exPc' = "raised" /\ exErr' = "API_RATE_LIMIT_EXCEEDED"
       ELSE exPc' = "loop" /\ exErr' = "none"
    /\ UNCHANGED <<response, backup>>

\* a backup that keeps the entries only
save_raw_entries(data) == Payload(data.id, TRUE, data.entries)

\* _save_raw_backup(data): json.dump of the payload over the file's old content
save_raw_backup(data) == data

\* status 200: payload = response.json(); _save_raw_backup(payload); return entries
extract_ok(payload) ==
    /\ exPc = "loop"
    /\ log' = Append(log, Get(200))
    /\ response' = payload
    /\ backup' = save_raw_backup(payload)
    /\ backupWrites' = backupWrites + 1
    /\ raw_data' = Entries(payload)
    /\ exPc' = "returned"
    /\ UNCHANGED <<retries, backoff_factor, attempt, exErr>>

\* status 429: time.sleep(backoff_factor**attempt); continue
extract_rate_limited ==
    /\ exPc = "loop"
    /\ log' = log \o <<Get(429), Sleep(WaitTime(backoff_factor, attempt))>>
    /\ NextAttempt
    /\ UNCHANGED <<retries, backoff_factor, response, backup, backupWrites, raw_data>>

\* an error status: response.raise_for_status() raises HTTPError, a RequestException
extract_http_error(status) ==
    /\ exPc = "loop"
    /\ log' = Append(log, Get(status))
    /\ Caught("HTTPError")
    /\ UNCHANGED <<retries, backoff_factor, response, backup, backupWrites, raw_data>>

\* any other status: raise_for_status() returns and the pass ends
extract_other_status(status) ==
    /\ exPc = "loop"
    /\ log' = Append(log, Get(status))
    /\ NextAttempt
    /\ UNCHANGED <<retries, backoff_factor, response, backup, backupWrites, raw_data>>

\* requests.get raised (connection error, timeout)
extract_network_error ==
    /\ exPc = "loop"
    /\ log' = Append(log, Get(NetworkError))
    /\ Caught("ConnectionError")
    /\ UNCHANGED <<retries, backoff_factor, response, backup, backupWrites, raw_data>>

\* ------------------------------------------------------------------ load.py
SqliteUrl == "sqlite:///lol_data.db"
PostgresUrl == "postgresql://etl@db/lol"
DbUrls == {"", SqliteUrl, PostgresUrl}

\* "sqlite" in db_url or not db_url
UsesReplace(db_url) == db_url = SqliteUrl \/ db_url = ""

Store(target, staging, hasStaging) ==
    [target |-> target, staging |-> staging, hasStaging |-> hasStaging]

EmptyStore == Store(<<>>, <<>>, FALSE)

Keys(rows) == {rows[i].summoner_id : i \in DOMAIN rows}

HasKey(rows, k) == \E i \in DOMAIN rows : rows[i].summoner_id = k

RowOfKey(rows, k) == rows[CHOOSE i \in DOMAIN rows : rows[i].summoner_id = k]

DuplicateKeys(rows) ==
    \E i, j \in DOMAIN rows : i # j /\ rows[i].summoner_id = rows[j].summoner_id

\* INSERT INTO target (...) SELECT ..., CURRENT_TIMESTAMP FROM staging: a new key
InsertRow(s, ts) ==
    [player_name |-> s.player_name, summoner_id |-> s.summoner_id, lp |-> s.lp,
     wins |-> s.wins, losses |-> s.losses, total_games |-> s.total_games,
     win_rate |-> s.win_rate, updated_at |-> ts]

\* ON CONFLICT (summoner_id) DO UPDATE SET lp, wins, losses, total_games, win_rate, updated_at
UpdateRow(t, s, ts) ==
    [t EXCEPT !.lp = s.lp, !.wins = s.wins, !.losses = s.losses,
              !.total_games = s.total_games, !.win_rate = s.win_rate,
              !.updated_at = ts]

\* the INSERT without its ON CONFLICT clause on a relation that lets it through
UpsertAppend(target, stg, ts) ==
    target \o [i \in DOMAIN stg |-> InsertRow(stg[i], ts)]

\* a merge that puts the staging rows in the place of the target's
UpsertOverwrite(target, stg, ts) == [i \in DOMAIN stg |-> InsertRow(stg[i], ts)]

\* the upsert query: conflicting rows updated in place, the others appended
Upsert(target, stg, ts) ==
    LET fresh == SelectSeq(stg, LAMBDA s : ~HasKey(target, s.summoner_id))
    IN  [i \in DOMAIN target |->
            IF HasKey(stg, target[i].summoner_id)
            THEN UpdateRow(target[i], RowOfKey(stg, target[i].summoner_id), ts)
            ELSE target[i]]
        \o [i \in DOMAIN fresh |-> InsertRow(fresh[i], ts)]

\* The statement is rejected when the staging relation lacks a selected column,
\* or when two of its rows carry one key (ON CONFLICT DO UPDATE cannot affect a
\* row a second time; two new rows with one key break the uniqueness constraint).
UpsertRejected(stg, columns) ==
    LoadColumns \ columns # {} \/ DuplicateKeys(stg)

\* leaving `with engine.begin()` by an exception keeps the transaction's writes
RollbackKeep(before, work) == work

\* leaving `with engine.begin()` by an exception: the transaction is rolled back
Rollback(before, work) == before

\* the replace path after an exception. to_sql(if_exists="replace") issues DROP
\* TABLE and CREATE TABLE before its INSERTs, and on the replace path the store
\* is SQLite, whose driver does not open its transaction before a DDL statement:
\* the rollback undoes the INSERTs only. The store is as before when the failure
\* came ahead of the DROP, and holds the recreated, empty relation otherwise.
AfterFailedReplace(before, work) ==
    {Rollback(before, work), [before EXCEPT !.target = <<>>]}

\* leaving `with engine.begin()` normally: the transaction is committed
Commit(before, work) == work

\* no call of load_data yet, against an empty store
LoadIdle ==
    /\ db = EmptyStore
    /\ txn = EmptyStore
    /\ engine = "none"
    /\ ldPc = "idle"
    /\ ldDf = DataFrame(LoadColumns, <<>>)
    /\ ldFailedAt = "none"
    /\ now = 0
    /\ dbBefore = EmptyStore
    /\ repeated = FALSE

InTransaction == ldPc \in {"begin", "replaced", "staged", "merged", "dropped"}

LoadFinished == ldPc \in {"idle", "returned", "raised"}

\* the step the store fails at when load_data is at ldPc
StepAt(p) ==
    CASE p = "begin" -> IF UsesReplace(DB_URL) THEN "replace" ELSE "staging"
      [] p = "staged" -> "merge"
      [] p = "merged" -> "drop"
      [] OTHER -> "commit"

\* a finally clause that leaves the engine as it is
DisposeSkipped(e) == e

\* finally: engine.dispose()
Dispose(e) == "disposed"

\* except SQLAlchemyError: log and raise; finally: engine.dispose()
LoadRaise(step) ==
    /\ IF UsesReplace(DB_URL)
       THEN db' \in AfterFailedReplace(db, txn)
       ELSE db' = Rollback(db, txn)
    /\ txn' = db'
    /\ engine' = Dispose(engine)
    /\ ldPc' = "raised"
    /\ ldFailedAt' = step
    /\ UNCHANGED <<ldDf, now, dbBefore, repeated>>

\* a load_data without the `if df.empty` guard
SkipsLoadNever(table) == FALSE

\* if df.empty: log a warning and return, before any engine is created
SkipsLoad(table) == Empty(table)

\* load_data(df) up to the opening of the transaction
load_begin(table) ==
    /\ LoadFinished
    /\ now < MaxClock
    /\ ldDf' = table
    /\ dbBefore' = db
    /\ repeated' = (ldPc = "returned" /\ ~Empty(ldDf) /\ table = ldDf)
    /\ ldFailedAt' = "none"
    /\ now' = now + 1
    /\ IF SkipsLoad(table)
       THEN /\ ldPc' = "returned"
            /\ UNCHANGED <<db, txn, engine>>
       ELSE /\ engine' = "open"
            /\ txn' = db
            /\ ldPc' = "begin"
            /\ UNCHANGED db

\* df.to_sql(target_table, if_exists="replace")
load_replace ==
    /\ ldPc = "begin" /\ UsesReplace(DB_URL)
    /\ txn' = [txn EXCEPT !.target = ldDf.rows]
    /\ ldPc' = "replaced"
    /\ UNCHANGED <<db, engine, ldDf, ldFailedAt, now, dbBefore, repeated>>

\* df.to_sql(staging_table, if_exists="replace")
load_staging ==
    /\ ldPc = "begin" /\ ~UsesReplace(DB_URL)
    /\ txn' = [txn EXCEPT !.staging = ldDf.rows, !.hasStaging = TRUE]
    /\ ldPc' = "staged"
    /\ UNCHANGED <<db, engine, ldDf, ldFailedAt, now, dbBefore, repeated>>

\* conn.execute(upsert_query)
load_merge ==
    /\ ldPc = "staged"
    /\ IF UpsertRejected(txn.staging, ldDf.columns)
       THEN LoadRaise("merge")
       ELSE /\ txn' = [txn EXCEPT !.target = Upsert(txn.target, txn.staging, now)]
            /\ ldPc' = "merged"
            /\ UNCHANGED <<db, engine, ldDf, ldFailedAt, now, dbBefore, repeated>>

\* conn.execute(DROP TABLE IF EXISTS staging)
load_drop ==
    /\ ldPc = "merged"
    /\ txn' = [txn EXCEPT !.staging = <<>>, !.hasStaging = FALSE]
    /\ ldPc' = "dropped"
    /\ UNCHANGED <<db, engine, ldDf, ldFailedAt, now, dbBefore, repeated>>

\* the with block ends, the function logs and returns through finally
load_commit ==
    /\ ldPc \in {"replaced", "dropped"}
    /\ db' = Commit(db, txn)
    /\ txn' = db'
    /\ engine' = Dispose(engine)
    /\ ldPc' = "returned"
    /\ UNCHANGED <<ldDf, ldFailedAt, now, dbBefore, repeated>>

\* the store fails at the next step of the transaction (SQLAlchemyError)
load_fail ==
    /\ InTransaction
    /\ LoadRaise(StepAt(ldPc))

\* ------------------------------------------------------------------ alert.py
SomeHook == "https://hooks.slack.com/services/T/B/X"
WebhookUrls == {"", SomeHook}

\* what becomes of one notification: no webhook configured, status 200, another
\* status, or requests.post raised
Deliveries ==
    IF SLACK_WEBHOOK_URL = "" THEN {"skipped"}
    ELSE {"delivered", "rejected", "unreachable"}

Alert(message, level, delivery) ==
    [message |-> message, level |-> level, delivery |-> delivery]

\* a transport exception leaves send_slack_alert
AlertRaisesOnTransport(delivery) == delivery = "unreachable"

\* send_slack_alert returns on every path: the missing webhook returns early, a
\* status other than 200 is logged, a RequestException is caught and logged
AlertRaises(delivery) == FALSE

send_slack_alert(message, level, delivery) ==
    alerts' = Append(alerts, Alert(message, level, delivery))

\* ------------------------------------------------------------------ main.py
StageOrder == <<"extract", "normalize", "enrich", "validate", "load">>

DefaultRetries == 3
DefaultBackoff == 2

\* sys.exit(1) in the handler; a run that returns ends the process with status 0
ExitCode(err) == IF err = "none" THEN 0 ELSE 1

NoTable == DataFrame({}, <<>>)

PipelineIdle ==
    /\ pc = "Idle"
    /\ df = NoTable
    /\ gate = "none"
    /\ stages = <<>>
    /\ alerts = <<>>
    /\ error = "none"
    /\ exitStatus = <<>>
    /\ dbAtStart = db
    /\ runs = 0

\* ------------------------------------------------------------------ loader alone
SampleIds == {"A", "B"}

\* two snapshots of a player: the name and the statistics both differ
SampleSnapshots ==
    {[player_name |-> "x", lp |-> 0, wins |-> 0, losses |-> 0],
     [player_name |-> "y", lp |-> 7, wins |-> 3, losses |-> 1]}

SampleRows ==
    {EnrichRow([player_name |-> s.player_name, summoner_id |-> k, lp |-> s.lp,
                wins |-> s.wins, losses |-> s.losses]) :
        k \in SampleIds, s \in SampleSnapshots}

SeqsUpTo(S, n) == UNION {[1..m -> S] : m \in 0..n}

\* the tables the loader is called with: the empty one, and the ones the gate accepts
LoadTables ==
    {DataFrame(LoadColumns, rows) : rows \in SeqsUpTo(SampleRows, MaxRows)}

InitLoad ==
    /\ DB_URL \in DbUrls
    /\ API_KEY = SomeKey
    /\ SLACK_WEBHOOK_URL = ""
    /\ ExtractIdle
    /\ LoadIdle
    /\ PipelineIdle

CallLoad == (\E table \in LoadTables : load_begin(table)) /\ UNCHANGED <<envVars, exVars, ppVars>>

NextLoad ==
    \/ CallLoad
    \/ load_replace /\ UNCHANGED <<envVars, exVars, ppVars>>
    \/ load_staging /\ UNCHANGED <<envVars, exVars, ppVars>>
    \/ load_merge /\ UNCHANGED <<envVars, exVars, ppVars>>
    \/ load_drop /\ UNCHANGED <<envVars, exVars, ppVars>>
    \/ load_commit /\ UNCHANGED <<envVars, exVars, ppVars>>
    \/ load_fail /\ UNCHANGED <<envVars, exVars, ppVars>>

SpecLoad == InitLoad /\ [][NextLoad]_vars

\* ------------------------------------------------------------------ extractor alone
\* records as the API returns them; a field may be absent, others may be added
EntryA == [summonerName |-> "x", summonerId |-> "A", leaguePoints |-> 7, wins |-> 3, losses |-> 1]
EntryB == [summonerName |-> "y", summonerId |-> "B", leaguePoints |-> 9, wins |-> 0, losses |-> 0]
EntryNegative == [summonerName |-> "y", summonerId |-> "A", leaguePoints |-> -5, wins |-> 1, losses |-> 1]
EntryDrifted == [leaguePoints |-> 5, wins |-> 1, losses |-> 0, gold_earned |-> 100]
EntryNoLp == [summonerName |-> "y", summonerId |-> "B", wins |-> 2, losses |-> 2]

SamplePayloads ==
    {Payload("good", TRUE, <<EntryA, EntryB>>),
     Payload("negative", TRUE, <<EntryNegative>>),
     Payload("drifted", TRUE, <<EntryDrifted>>),
     Payload("partial", TRUE, <<EntryA, EntryNoLp>>),
     Payload("empty", TRUE, <<>>),
     Payload("nokey", FALSE, <<>>)}

InitExtract ==
    /\ DB_URL = ""
    /\ API_KEY \in ApiKeys
    /\ SLACK_WEBHOOK_URL = ""
    /\ ExtractIdle
    /\ LoadIdle
    /\ PipelineIdle

CallExtract ==
    /\ \E n \in 0..MaxRetries : \E factor \in 1..MaxFactor : extract_begin(n, factor)
    /\ UNCHANGED <<envVars, ldVars, ppVars>>

FetchOk ==
    /\ \E payload \in SamplePayloads : extract_ok(payload)
    /\ UNCHANGED <<envVars, ldVars, ppVars>>

FetchRateLimited == extract_rate_limited /\ UNCHANGED <<envVars, ldVars, ppVars>>

FetchHttpError ==
    /\ \E status \in ErrorStatuses : extract_http_error(status)
    /\ UNCHANGED <<envVars, ldVars, ppVars>>

FetchOtherStatus ==
    /\ \E status \in OtherStatuses : extract_other_status(status)
    /\ UNCHANGED <<envVars, ldVars, ppVars>>

FetchNetworkError == extract_network_error /\ UNCHANGED <<envVars, ldVars, ppVars>>

NextExtract ==
    \/ CallExtract
    \/ FetchOk
    \/ FetchRateLimited
    \/ FetchHttpError
    \/ FetchOtherStatus
    \/ FetchNetworkError

SpecExtract == InitExtract /\ [][NextExtract]_vars

\* one pass of the loop: the GET answers or raises within its timeout, and the
\* sleep that may follow it ends
Fetch ==
    \/ FetchOk
    \/ FetchRateLimited
    \/ FetchHttpError
    \/ FetchOtherStatus
    \/ FetchNetworkError

\* extract_data alone, with every pass of its loop coming to an end
SpecExtractLive == SpecExtract /\ WF_vars(Fetch)

\* ------------------------------------------------------------------ run_pipeline
Stage(name) == stages' = Append(stages, name)

\* an exception reaches `except Exception as e`
Raise(err) ==
    /\ error' = err
    /\ pc' = "Failing"

\* send_slack_alert("ETL Process Started", level="INFO")
run_start ==
    /\ pc = "Idle"
    /\ \E d \in Deliveries :
        /\ send_slack_alert("started", "INFO", d)
        /\ IF AlertRaises(d) THEN Raise("RequestException")
           ELSE pc' = "Extracting" /\ UNCHANGED error
    /\ UNCHANGED <<df, gate, stages, exitStatus, dbAtStart, runs>>
    /\ UNCHANGED <<envVars, exVars, ldVars>>

\* raw_data = extract_data()
run_extract ==
    /\ pc = "Extracting" /\ exPc = "idle"
    /\ Stage("extract")
    /\ extract_begin(DefaultRetries, DefaultBackoff)
    /\ UNCHANGED <<pc, df, gate, alerts, error, exitStatus, dbAtStart, runs>>
    /\ UNCHANGED <<envVars, ldVars>>

\* one GET of extract_data and what follows it in the same pass of the loop
run_fetch ==
    /\ pc = "Extracting"
    /\ \/ \E payload \in SamplePayloads : extract_ok(payload)
       \/ extract_rate_limited
       \/ \E status \in ErrorStatuses : extract_http_error(status)
       \/ \E status \in OtherStatuses : extract_other_status(status)
       \/ extract_network_error
    /\ UNCHANGED <<envVars, ldVars, ppVars>>

\* extract_data returned
run_extracted ==
    /\ pc = "Extracting" /\ exPc = "returned"
    /\ pc' = "Normalizing"
    /\ UNCHANGED <<df, gate, stages, alerts, error, exitStatus, dbAtStart, runs>>
    /\ UNCHANGED <<envVars, exVars, ldVars>>

\* extract_data raised
run_extract_failed ==
    /\ pc = "Extracting" /\ exPc = "raised"
    /\ Raise(exErr)
    /\ UNCHANGED <<df, gate, stages, alerts, exitStatus, dbAtStart, runs>>
    /\ UNCHANGED <<envVars, exVars, ldVars>>

\* a transform_data without the `if not raw_data` guard
InputEmptyNever(raw) == FALSE

\* [Phase 0]: `if not raw_data`
InputEmpty(raw) == raw = <<>>

\* transform_data [Phase 0] to [Phase 2]: the input guard, mapping, projection
transform_normalize ==
    /\ pc = "Normalizing"
    /\ Stage("normalize")
    /\ IF InputEmpty(raw_data)
       THEN Raise("TRANSFORM_INPUT_EMPTY") /\ UNCHANGED df
       ELSE /\ df' = Normalize(raw_data)
            /\ pc' = "Enriching"
            /\ UNCHANGED error
    /\ UNCHANGED <<gate, alerts, exitStatus, dbAtStart, runs>>
    /\ UNCHANGED <<envVars, exVars, ldVars>>

\* transform_data [Phase 3]: total_games and win_rate
transform_enrich ==
    /\ pc = "Enriching"
    /\ Stage("enrich")
    /\ df' = Enrich(df)
    /\ pc' = "Validating"
    /\ UNCHANGED <<gate, alerts, error, exitStatus, dbAtStart, runs>>
    /\ UNCHANGED <<envVars, exVars, ldVars>>

\* transform_data [Phase 4] and [Phase 5]: the quality gate, then the sort
transform_validate ==
    /\ pc = "Validating"
    /\ Stage("validate")
    /\ gate' = IF validate_data(df) THEN "passed" ELSE "rejected"
    /\ IF GateOpen(df)
       THEN /\ df' = SortByLp(df)
            /\ pc' = "Loading"
            /\ UNCHANGED error
       ELSE Raise("DATA_QUALITY_VALIDATION_FAILED") /\ UNCHANGED df
    /\ UNCHANGED <<alerts, exitStatus, dbAtStart, runs>>
    /\ UNCHANGED <<envVars, exVars, ldVars>>

\* load_data(clean_df)
run_load ==
    /\ pc = "Loading" /\ ldPc = "idle"
    /\ Stage("load")
    /\ load_begin(df)
    /\ UNCHANGED <<pc, df, gate, alerts, error, exitStatus, dbAtStart, runs>>
    /\ UNCHANGED <<envVars, exVars>>

\* one statement of load_data's transaction, its commit, or the store's failure
run_store ==
    /\ pc = "Loading"
    /\ \/ load_replace
       \/ load_staging
       \/ load_merge
       \/ load_drop
       \/ load_commit
       \/ load_fail
    /\ UNCHANGED <<envVars, exVars, ppVars>>

\* load_data returned
run_loaded ==
    /\ pc = "Loading" /\ ldPc = "returned"
    /\ pc' = "Reporting"
    /\ UNCHANGED <<df, gate, stages, alerts, error, exitStatus, dbAtStart, runs>>
    /\ UNCHANGED <<envVars, exVars, ldVars>>

\* load_data raised
run_load_failed ==
    /\ pc = "Loading" /\ ldPc = "raised"
    /\ Raise("SQLAlchemyError")
    /\ UNCHANGED <<df, gate, stages, alerts, exitStatus, dbAtStart, runs>>
    /\ UNCHANGED <<envVars, exVars, ldVars>>

\* send_slack_alert(success_log, level="INFO"), then run_pipeline returns
run_report ==
    /\ pc = "Reporting"
    /\ \E d \in Deliveries :
        /\ send_slack_alert("completed", "INFO", d)
        /\ IF AlertRaises(d) THEN Raise("RequestException") /\ UNCHANGED exitStatus
           ELSE /\ pc' = "Succeeded"
                /\ exitStatus' = <<ExitCode(error)>>
                /\ UNCHANGED error
    /\ UNCHANGED <<df, gate, stages, dbAtStart, runs>>
    /\ UNCHANGED <<envVars, exVars, ldVars>>

\* the handler: send_slack_alert("Pipeline Failure: ...", level="ERROR"); sys.exit(1)
run_fail ==
    /\ pc = "Failing"
    /\ \E d \in Deliveries :
        /\ send_slack_alert("failure", "ERROR", d)
        /\ pc' = IF AlertRaises(d) THEN "Crashed" ELSE "Failed"
    /\ exitStatus' = <<ExitCode(error)>>
    /\ UNCHANGED <<df, gate, stages, error, dbAtStart, runs>>
    /\ UNCHANGED <<envVars, exVars, ldVars>>

\* the next scheduled run: a new process against the same store and backup file
new_run ==
    /\ pc \in {"Succeeded", "Failed", "Crashed"}
    /\ runs < MaxRuns
    /\ runs' = runs + 1
    /\ pc' = "Idle"
    /\ df' = NoTable
    /\ gate' = "none"
    /\ stages' = <<>>
    /\ alerts' = <<>>
    /\ error' = "none"
    /\ exitStatus' = <<>>
    /\ dbAtStart' = db
    /\ retries' = 0 /\ backoff_factor' = 0 /\ attempt' = 0
    /\ exPc' = "idle" /\ exErr' = "none" /\ log' = <<>>
    /\ backupWrites' = 0 /\ raw_data' = <<>>
    /\ txn' = db /\ engine' = "none" /\ ldPc' = "idle"
    /\ ldDf' = DataFrame(LoadColumns, <<>>)
    /\ ldFailedAt' = "none" /\ dbBefore' = db /\ repeated' = FALSE
    /\ UNCHANGED <<envVars, db, response, backup, now>>

\* a store an earlier run left behind: nothing, or one player
SeedStores ==
    {EmptyStore} \cup
    {Store(<<IF UsesReplace(DB_URL) THEN r ELSE InsertRow(r, 0)>>, <<>>, FALSE) :
        r \in {x \in SampleRows : x.summoner_id = "A" /\ x.player_name = "x"}}

Init ==
    /\ DB_URL \in DbUrls
    /\ API_KEY \in ApiKeys
    /\ SLACK_WEBHOOK_URL \in WebhookUrls
    /\ ExtractIdle
    /\ db \in SeedStores
    /\ txn = db
    /\ engine = "none"
    /\ ldPc = "idle"
    /\ ldDf = DataFrame(LoadColumns, <<>>)
    /\ ldFailedAt = "none"
    /\ now = 0
    /\ dbBefore = db
    /\ repeated = FALSE
    /\ PipelineIdle

Next ==
    \/ run_start
    \/ run_extract
    \/ run_fetch
    \/ run_extracted
    \/ run_extract_failed
    \/ transform_normalize
    \/ transform_enrich
    \/ transform_validate
    \/ run_load
    \/ run_store
    \/ run_loaded
    \/ run_load_failed
    \/ run_report
    \/ run_fail
    \/ new_run

Spec == Init /\ [][Next]_vars

\* ------------------------------------------------------------------ extractor: properties
RECURSIVE ValuesOf(_, _)
\* the values of the events of one kind in a log, in order
ValuesOf(kind, events) ==
    IF events = <<>> THEN <<>>
    ELSE IF Head(events).ev = kind
         THEN <<Head(events).val>> \o ValuesOf(kind, Tail(events))
         ELSE ValuesOf(kind, Tail(events))

RECURSIVE Sum(_)
Sum(q) == IF q = <<>> THEN 0 ELSE Head(q) + Sum(Tail(q))

\* the attempt index of the GET at position i of the log
AttemptOf(i) == Len(ValuesOf("GET", SubSeq(log, 1, i))) - 1

\* C6: three HTTP 429 answers in a row with retries = 3 and backoff_factor = 2
\* make extract_data sleep 2, 4 and 8 seconds, 14 in all, before it fails.
C6_BackoffSchedule ==
    (exPc = "raised" /\ retries = 3 /\ backoff_factor = 2
        /\ ValuesOf("GET", log) = <<429, 429, 429>>) =>
        /\ ValuesOf("sleep", log) = <<2, 4, 8>>
        /\ Sum(ValuesOf("sleep", log)) = 14

\* C7: a GET answered with an HTTP error status other than 429 is the last GET
\* of the call, and the call has failed.
C7_ErrorStatusFailsAtOnce ==
    \A i \in DOMAIN log :
        (log[i].ev = "GET" /\ log[i].val \in ErrorStatuses) =>
            (i = Len(log) /\ exPc = "raised")

\* C8: a network exception on attempt k that is followed by another GET is
\* followed first by a sleep of backoff_factor^k seconds.
C8_NetworkErrorBackoff ==
    \A i \in DOMAIN log :
        (log[i] = Get(NetworkError) /\ i < Len(log)) =>
            log[i + 1] = Sleep(WaitTime(backoff_factor, AttemptOf(i)))

\* ------------------------------------------------------------------ loader: properties
NonKeyColumns == {"player_name", "lp", "wins", "losses", "total_games", "win_rate"}

\* the rows without updated_at
Content(rows) == [i \in DOMAIN rows |-> [c \in LoadColumns |-> rows[i][c]]]

UpsertPath == ~UsesReplace(DB_URL)

\* C1: when load_data(T) on the upsert path has committed and is run again with
\* the same T and commits again, the target relation has the row count and the
\* column values (updated_at aside) that it had after the first run.
C1_UpsertIdempotent ==
    (UpsertPath /\ repeated /\ ldPc = "returned") =>
        /\ Len(db.target) = Len(dbBefore.target)
        /\ Content(db.target) = Content(dbBefore.target)

\* the second run committed on a relation of two rows, and re-stamped them
C1_Witness ==
    /\ UpsertPath /\ repeated /\ ldPc = "returned"
    /\ Len(db.target) = 2
    /\ db.target # dbBefore.target

\* C2: after load_data(T) committed on the upsert path, the target relation
\* holds for every row r of T exactly one row with r's key, and that row has r's
\* value in every non-key column (player_name included) and updated_at set to
\* the merge time, whether the key was new or already stored.
C2_MergeSemantics ==
    (UpsertPath /\ ldPc = "returned" /\ ~Empty(ldDf)) =>
        \A i \in DOMAIN ldDf.rows :
            LET r == ldDf.rows[i]
            IN  /\ Cardinality({j \in DOMAIN db.target :
                                    db.target[j].summoner_id = r.summoner_id}) = 1
                /\ \A c \in NonKeyColumns :
                        RowOfKey(db.target, r.summoner_id)[c] = r[c]
                /\ RowOfKey(db.target, r.summoner_id).updated_at = now

\* C3: when the store fails at a step of the upsert path (writing the staging
\* relation, merging, dropping the staging relation, committing), load_data
\* raises, the target relation is as it was when load_data was called, and no
\* staging relation is left.
C3_UpsertAtomic ==
    (UpsertPath /\ ldFailedAt # "none") =>
        /\ ldPc = "raised"
        /\ db.target = dbBefore.target
        /\ ~db.hasStaging
        /\ db = dbBefore

\* the store failed after the merge had changed a populated target relation
C3_Witness ==
    /\ UpsertPath /\ ldFailedAt = "drop" /\ ldPc = "raised"
    /\ dbBefore.target # <<>>
    /\ Keys(ldDf.rows) \cap Keys(dbBefore.target) # {}
    /\ Keys(ldDf.rows) \ Keys(dbBefore.target) # {}

\* ------------------------------------------------------------------ validator alone
GateColumns == {"player_name", "summoner_id", "lp", "win_rate"}

\* cells on both sides of every bound validate_data looks at, and missing ones
GateRows ==
    [player_name : {"x"}, summoner_id : {"A", NullStr},
     lp : {-1, 0, NaN}, win_rate : {-100 * Scale, 50 * Scale, 100 * Scale + 50}]

Restrict(r, columns) == [c \in columns |-> r[c]]

\* tables of any shape: every choice of columns, up to MaxRows rows
GateTables ==
    {DataFrame(columns, [i \in DOMAIN rows |-> Restrict(rows[i], columns)]) :
        columns \in SUBSET GateColumns, rows \in SeqsUpTo(GateRows, MaxRows)}

InitValidate ==
    /\ DB_URL = ""
    /\ API_KEY = SomeKey
    /\ SLACK_WEBHOOK_URL = ""
    /\ ExtractIdle
    /\ LoadIdle
    /\ pc = "Validating"
    /\ df \in GateTables
    /\ gate = "none"
    /\ stages = <<>>
    /\ alerts = <<>>
    /\ error = "none"
    /\ exitStatus = <<>>
    /\ dbAtStart = db
    /\ runs = 0

\* validate_data(df)
ApplyValidate ==
    /\ gate = "none"
    /\ gate' = IF validate_data(df) THEN "passed" ELSE "rejected"
    /\ UNCHANGED <<pc, df, stages, alerts, error, exitStatus, dbAtStart, runs>>
    /\ UNCHANGED <<envVars, exVars, ldVars>>

NextValidate == ApplyValidate

SpecValidate == InitValidate /\ [][NextValidate]_vars

\* ------------------------------------------------------------------ validator: properties
\* C5: every row of a table validate_data accepts has 0 <= win_rate <= 100 and
\* lp >= 0, whatever columns the table has.
C5_GateRejectsOutOfBounds ==
    gate = "passed" =>
        \A i \in DOMAIN df.rows :
            /\ ("win_rate" \in df.columns /\ df.rows[i].win_rate # NaN) =>
                    (0 <= df.rows[i].win_rate /\ df.rows[i].win_rate <= 100 * Scale)
            /\ ("lp" \in df.columns /\ df.rows[i].lp # NaN) => df.rows[i].lp >= 0

\* ------------------------------------------------------------------ pipeline: properties
IsPrefix(p, q) == Len(p) <= Len(q) /\ p = SubSeq(q, 1, Len(p))

\* the stage that raises an error
StageOf(err) ==
    CASE err = "TRANSFORM_INPUT_EMPTY" -> "normalize"
      [] err = "DATA_QUALITY_VALIDATION_FAILED" -> "validate"
      [] err = "SQLAlchemyError" -> "load"
      [] OTHER -> "extract"

ErrorAlerts == {i \in DOMAIN alerts : alerts[i].level = "ERROR"}

\* C4: in a run, load_data has been called only if validate_data accepted the
\* run's table; when validate_data rejected it, transform_data raised the
\* data-quality failure, load_data was not called and the store is unchanged.
C4_NoBypass ==
    /\ ldPc # "idle" => (gate = "passed" /\ validate_data(df))
    /\ "load" \in {stages[i] : i \in DOMAIN stages} => gate = "passed"
    /\ gate = "rejected" =>
        /\ pc \in {"Failing", "Failed"}
        /\ error = "DATA_QUALITY_VALIDATION_FAILED"
        /\ ldPc = "idle"
        /\ db = dbAtStart

\* the gate rejected the table of a run against a populated store
C4_Witness ==
    /\ gate = "rejected" /\ pc = "Failed"
    /\ db.target # <<>>

\* C9: the stages start in the order extract, normalize, enrich, validate,
\* load, each at most once and only while no stage has failed; once a stage has
\* failed no later stage starts, the store is as it was when the run started,
\* and the run ends in Failed with exit status 1 after exactly one call of the
\* notifier with severity ERROR; Succeeded is reached only after load_data
\* returned.
C9_FailFast ==
    /\ IsPrefix(stages, StageOrder)
    /\ error # "none" =>
        /\ pc \in {"Failing", "Failed"}
        /\ stages # <<>> /\ stages[Len(stages)] = StageOf(error)
        /\ db = dbAtStart
    /\ pc = "Failing" => (error # "none" /\ ErrorAlerts = {})
    /\ pc = "Failed" =>
        /\ error # "none"
        /\ exitStatus = <<1>>
        /\ ErrorAlerts = {Len(alerts)}
    /\ pc = "Succeeded" =>
        /\ ldPc = "returned" /\ error = "none"
        /\ stages = StageOrder
        /\ ErrorAlerts = {}

\* C10: whatever becomes of a notification (no webhook, a transport exception,
\* a status other than 200, or delivery), the step that sends it leads to the
\* same position, error, stages, store and exit status: the start notification
\* to Extracting, the success notification to Succeeded with status 0, the
\* failure notification to Failed with status 1.
C10_NotificationNeutral ==
    [][/\ pc = "Idle" =>
            /\ pc' = "Extracting" /\ error' = "none"
            /\ db' = db /\ stages' = stages /\ exitStatus' = exitStatus
       /\ pc = "Reporting" =>
            /\ pc' = "Succeeded" /\ error' = "none" /\ exitStatus' = <<0>>
            /\ db' = db /\ stages' = stages
       /\ pc = "Failing" =>
            /\ pc' = "Failed" /\ error' = error /\ exitStatus' = <<1>>
            /\ db' = db /\ stages' = stages]_vars

\* a run that loaded its data and ended in Succeeded though no notification arrived
C10_Witness ==
    /\ pc = "Succeeded" /\ Len(alerts) = 2
    /\ alerts[1].delivery = "unreachable"
    /\ alerts[2].delivery = "rejected"
    /\ db # dbAtStart

\* C11: a call of load_data with an empty table is over in one step that
\* returns, leaves the store (target and staging relation) exactly as it was and
\* creates no engine, whether DB_URL selects the replace or the upsert strategy.
C11_EmptyLoadNoOp ==
    [][(now' = now + 1 /\ Empty(ldDf'))
         => /\ ldPc' = "returned"
            /\ db' = db
            /\ txn' = txn
            /\ engine' = engine
            /\ engine' # "open"]_vars

C11_Witness ==
    /\ ldPc = "returned"
    /\ Empty(ldDf)
    /\ db.target # <<>>
    /\ db = dbBefore
    /\ engine = "disposed"

\* ------------------------------------------------------------------ transformer alone
\* records with every mapped field: a won and lost season, no game played,
\* negative game counts, negative league points
RawVariants ==
    {[summonerName |-> "x", summonerId |-> "A", leaguePoints |-> 7, wins |-> 2, losses |-> 1],
     [summonerName |-> "y", summonerId |-> "B", leaguePoints |-> 9, wins |-> 0, losses |-> 0],
     [summonerName |-> "y", summonerId |-> "B", leaguePoints |-> 5, wins |-> -3, losses |-> 1],
     [summonerName |-> "x", summonerId |-> "A", leaguePoints |-> -5, wins |-> 1, losses |-> 1]}

\* the mapped fields a record may lack: none, any one, the two texts, all
AbsentSets ==
    {{}} \cup {{api_key} : api_key \in SchemaKeys}
         \cup {{"summonerName", "summonerId"}, SchemaKeys}

Without(entry, absent) == [k \in DOMAIN entry \ absent |-> entry[k]]

\* fields the API adds that schema_map does not know
WithExtras(entry) ==
    [k \in DOMAIN entry \cup {"gold_earned", "total_damage"} |->
        IF k = "gold_earned" THEN 100
        ELSE IF k = "total_damage" THEN 250
        ELSE entry[k]]

RawEntries ==
    LET drifted == {Without(entry, absent) : entry \in RawVariants, absent \in AbsentSets}
        first == CHOOSE entry \in RawVariants : entry.leaguePoints = 7
    IN  drifted \cup {WithExtras(Without(first, absent)) : absent \in AbsentSets}

\* what transform_data is called with: lists of up to MaxRows records
RawInputs == SeqsUpTo(RawEntries, MaxRows)

InitTransform ==
    /\ DB_URL = ""
    /\ API_KEY = SomeKey
    /\ SLACK_WEBHOOK_URL = ""
    /\ retries = 0
    /\ backoff_factor = 0
    /\ attempt = 0
    /\ exPc = "idle"
    /\ exErr = "none"
    /\ log = <<>>
    /\ response = NoPayload
    /\ backup = NoPayload
    /\ backupWrites = 0
    /\ raw_data \in RawInputs
    /\ LoadIdle
    /\ pc = "Normalizing"
    /\ df = NoTable
    /\ gate = "none"
    /\ stages = <<>>
    /\ alerts = <<>>
    /\ error = "none"
    /\ exitStatus = <<>>
    /\ dbAtStart = db
    /\ runs = 0

\* transform_data(raw_data), phase by phase
NextTransform ==
    \/ transform_normalize
    \/ transform_enrich
    \/ transform_validate

SpecTransform == InitTransform /\ [][NextTransform]_vars

\* the records with every absent mapped field filled with its default
Filled(raw) ==
    [i \in DOMAIN raw |->
        [k \in DOMAIN raw[i] \cup SchemaKeys |->
            IF k \in DOMAIN raw[i] THEN raw[i][k] ELSE Default(SchemaMap(k))]]

\* C12: for a non-empty raw list, every record that lacks a mapped field gets
\* the default in that column ("Unknown" for the name, 0 otherwise), whether the
\* field is absent from all records or only from some, and transform_data does
\* not abort on a list that would pass with the absent fields filled in.
C12_SchemaDriftTolerance ==
    raw_data # <<>> =>
        /\ pc \in {"Enriching", "Validating"} =>
              \A i \in DOMAIN raw_data : \A api_key \in SchemaKeys \ DOMAIN raw_data[i] :
                  df.rows[i][SchemaMap(api_key)] = Default(SchemaMap(api_key))
        /\ pc = "Failing" => ~validate_data(Enrich(Normalize(Filled(raw_data))))

\* C13: when the 200 answer of a call of extract_data has no entries key or an
\* empty entries list, the call has written the raw backup and returned the
\* empty list without failing; the run then fails in transform_data with the
\* empty-input error, load_data is not called, the store is untouched, and the
\* run ends in Failed.
C13_EmptyExtraction ==
    (backupWrites = 1 /\ Entries(backup) = <<>>) =>
        /\ exPc = "returned" /\ exErr = "none" /\ raw_data = <<>>
        /\ pc \in {"Extracting", "Normalizing", "Failing", "Failed"}
        /\ stages \in {<<"extract">>, <<"extract", "normalize">>}
        /\ pc \in {"Failing", "Failed"} => error = "TRANSFORM_INPUT_EMPTY"
        /\ pc \in {"Extracting", "Normalizing"} => error = "none"
        /\ ldPc = "idle" /\ engine = "none"
        /\ db = dbAtStart

\* the answer had no entries key, and the run has ended
C13_Witness ==
    /\ backupWrites = 1 /\ ~backup.hasEntries
    /\ pc = "Failed" /\ error = "TRANSFORM_INPUT_EMPTY"
    /\ exitStatus = <<1>>
    /\ db.target # <<>>

\* ------------------------------------------------------------------ transformer: properties
Abs(n) == IF n < 0 THEN -n ELSE n

\* the table has been through [Phase 3]
Enriched == pc \in {"Validating", "Loading"} \/ (pc = "Failing" /\ gate = "rejected")

\* total is the sum of the two counts, missing when one of them is
IsTotal(total, wins, losses) ==
    IF wins = NaN \/ losses = NaN THEN total = NaN ELSE total = wins + losses

\* rate (in hundredths) is wins / total * 100 rounded to two decimals: no other
\* value with two decimals is nearer; missing when the quotient is
IsRoundedRate(rate, wins, total) ==
    IF wins = NaN \/ total = NaN THEN rate = NaN
    ELSE 2 * Abs(rate * total - wins * 100 * Scale) <= Abs(total)

\* C14 as stated: in every row of the enriched table total_games = wins + losses,
\* win_rate = 0.0 when total_games = 0, and otherwise win_rate is
\* wins / total_games * 100 rounded to two decimals.
C14_EnrichmentAsStated ==
    Enriched =>
        \A i \in DOMAIN df.rows :
            LET r == df.rows[i]
            IN  /\ IsTotal(r.total_games, r.wins, r.losses)
                /\ r.total_games = 0 => r.win_rate = 0
                /\ r.total_games # 0 => IsRoundedRate(r.win_rate, r.wins, r.total_games)

\* C14, amended: in every row of the enriched table total_games = wins + losses
\* (missing when a count is missing), win_rate is wins / total_games * 100
\* rounded to two decimals when total_games > 0, and win_rate = 0.0 in every
\* other case: total_games zero, negative or missing.
C14_Enrichment ==
    Enriched =>
        \A i \in DOMAIN df.rows :
            LET r == df.rows[i]
            IN  /\ IsTotal(r.total_games, r.wins, r.losses)
                /\ IF r.total_games # NaN /\ r.total_games > 0
                   THEN IsRoundedRate(r.win_rate, r.wins, r.total_games)
                   ELSE r.win_rate = 0

\* a returned table with a rounded rate (2 of 3 games: 66.67) and a row without games
C14_Witness ==
    /\ pc = "Loading"
    /\ \E i \in DOMAIN df.rows :
          df.rows[i].wins = 2 /\ df.rows[i].total_games = 3 /\ df.rows[i].win_rate = 6667
    /\ \E i \in DOMAIN df.rows :
          df.rows[i].total_games = 0 /\ df.rows[i].win_rate = 0

\* C15: a call of extract_data that has returned wrote the raw backup exactly
\* once, and its content is the payload of the 200 answer the entries were taken
\* from; a call that is still looping or has raised wrote nothing; so at any
\* time, after any sequence of calls, the backup is the payload of the most
\* recent answer with status 200.
C15_RawBackup ==
    /\ exPc = "returned" =>
        /\ backupWrites = 1
        /\ log # <<>> /\ log[Len(log)] = Get(200)
        /\ backup = response
        /\ raw_data = Entries(response)
    /\ exPc \in {"loop", "raised"} => backupWrites = 0
    /\ backup = response

\* a call that failed after retrying, following one that had fetched a payload
\* without an entries key
C15_Witness ==
    /\ exPc = "raised" /\ Len(log) > 1
    /\ backupWrites = 0
    /\ backup # NoPayload /\ ~backup.hasEntries

\* C16: an engine is open only while load_data is inside its try block; once a
\* call that created an engine has returned or raised, whatever the path (the
\* replace or the upsert committed, or the store failed at any step), the
\* engine has been disposed.
C16_ConnectionRelease ==
    /\ engine = "open" => InTransaction
    /\ (ldPc \in {"returned", "raised"} /\ ~Empty(ldDf)) => engine = "disposed"
    /\ ldPc = "raised" => engine = "disposed"

\* the store failed in the middle of the upsert, and the call has raised
C16_Witness ==
    /\ ldPc = "raised" /\ ldFailedAt = "merge"
    /\ engine = "disposed"

\* the notifications of this run that went out to the webhook (requests.post)
Posts == {i \in DOMAIN alerts : alerts[i].delivery # "skipped"}

\* C17: when RIOT_API_KEY is absent the run fails with the configuration error
\* and ends in Failed, and at no time in that run has an outbound network
\* request been made: no GET to the API and no POST to the webhook.
C17_NoNetworkWithoutKey ==
    API_KEY = "" =>
        /\ pc \in {"Idle", "Extracting", "Failing", "Failed"}
        /\ error \in {"none", "API_KEY_MISSING"}
        /\ pc \in {"Failing", "Failed"} => error = "API_KEY_MISSING"
        /\ ValuesOf("GET", log) = <<>>
        /\ Posts = {}

\* ------------------------------------------------------------------ loader: replace path
ReplacePath == UsesReplace(DB_URL) /\ ~Empty(ldDf)

\* C18: on the replace path (DB_URL unset or naming SQLite) a load_data(T) that
\* returned left exactly the rows of T in the target relation, whatever it held
\* before; a second load of the same T leaves the store unchanged; and a
\* load_data that raised left the target relation as it was before the call.
C18_ReplaceStrategy ==
    ReplacePath =>
        /\ ldPc = "returned" => db.target = ldDf.rows
        /\ (ldPc = "returned" /\ repeated) => db = dbBefore
        /\ ldPc = "raised" => db.target = dbBefore.target

NonNegative(v) == v = NaN \/ v >= 0

\* C20: every row of a table transform_data returns has wins >= 0, losses >= 0
\* and total_games >= 0, whatever the raw input was.
C20_NonNegativeCounts ==
    pc = "Loading" =>
        \A i \in DOMAIN df.rows :
            /\ NonNegative(df.rows[i].wins)
            /\ NonNegative(df.rows[i].losses)
            /\ NonNegative(df.rows[i].total_games)

NumericColumns == {"lp", "wins", "losses", "total_games", "win_rate"}

\* C21: every numeric column (lp, wins, losses, total_games, win_rate) of a
\* table transform_data returns has a value in every row, whatever the raw input
\* was, also when a numeric field is missing from only some of the records.
C21_NoMissingNumeric ==
    pc = "Loading" =>
        \A i \in DOMAIN df.rows : \A c \in NumericColumns : df.rows[i][c] # NaN

\* how often row r occurs in rows
CountOf(r, rows) == Cardinality({i \in DOMAIN rows : rows[i] = r})

\* C22: the step of transform_data that returns the table, from the table
\* validate_data accepted, yields a table whose lp does not increase from one
\* row to the next and that has the same columns and the same rows, each as
\* often as before: the sort adds, drops and alters none.
C22_OutputOrdering ==
    [][(pc = "Validating" /\ pc' = "Loading") =>
          /\ validate_data(df)
          /\ \A i \in 1..(Len(df'.rows) - 1) : df'.rows[i].lp >= df'.rows[i + 1].lp
          /\ df'.columns = df.columns
          /\ Len(df'.rows) = Len(df.rows)
          /\ \A i \in DOMAIN df.rows :
                CountOf(df.rows[i], df'.rows) = CountOf(df.rows[i], df.rows)]_vars

\* a returned table whose two rows came in ascending order of leaguePoints
C22_Witness ==
    /\ pc = "Loading"
    /\ Len(raw_data) = 2 /\ Len(df.rows) = 2
    /\ DOMAIN raw_data[1] = SchemaKeys /\ DOMAIN raw_data[2] = SchemaKeys
    /\ raw_data[1].leaguePoints < raw_data[2].leaguePoints
    /\ df.rows[1].lp > df.rows[2].lp

\* C23: a table that passed the quality gate and goes to load_data has a
\* summoner_id in every row and no two rows with the same summoner_id, whatever
\* the raw input was, also when the summonerId field is absent from it.
C23_IdentityKey ==
    pc = "Loading" =>
        /\ gate = "passed"
        /\ \A i \in DOMAIN df.rows : ~IsNull("summoner_id", df.rows[i].summoner_id)
        /\ \A i, j \in DOMAIN df.rows :
              i # j => df.rows[i].summoner_id # df.rows[j].summoner_id

\* ------------------------------------------------------------------ extractor: termination
Gets == ValuesOf("GET", log)

\* C24: whatever the retry bound n >= 0 and the answers of the API, a call of
\* extract_data has issued at most n GETs at any time and comes to an end; it
\* returns only on a 200, the first and last answer of that kind, with the
\* entries of that answer; when every answer was 429 it has issued exactly n
\* GETs when it fails, and it fails with the rate-limit error.
C24_BoundedRetry ==
    /\ [](/\ Len(Gets) <= retries
          /\ exPc = "returned" =>
                /\ Gets # <<>> /\ Gets[Len(Gets)] = 200
                /\ \A i \in 1..(Len(Gets) - 1) : Gets[i] # 200
                /\ raw_data = Entries(response)
          /\ exPc # "returned" => \A i \in DOMAIN Gets : Gets[i] # 200
          /\ (exPc = "raised" /\ exErr # "API_KEY_MISSING"
                /\ \A i \in DOMAIN Gets : Gets[i] = 429) =>
                /\ Len(Gets) = retries
                /\ exErr = "API_RATE_LIMIT_EXCEEDED")
    /\ (exPc = "loop" ~> exPc \in {"returned", "raised"})

\* every one of three GETs was answered with 429, and the call has failed
C24_Witness ==
    /\ exPc = "raised" /\ exErr = "API_RATE_LIMIT_EXCEEDED"
    /\ retries = 3 /\ Gets = <<429, 429, 429>>

\* ------------------------------------------------------------------ loader: stored schema
PlayerRecordColumns == LoadColumns \cup {"updated_at"}

\* C25: when load_data of a non-empty table has returned, on the replace or on
\* the upsert path, every row of the target relation has every PlayerRecord
\* column, its updated_at is the time of this load, and no two rows of the
\* relation carry the same summoner_id.
C25_PersistedSchema ==
    (ldPc = "returned" /\ ~Empty(ldDf)) =>
        /\ \A i \in DOMAIN db.target :
              /\ DOMAIN db.target[i] = PlayerRecordColumns
              /\ db.target[i].updated_at = now
        /\ ~DuplicateKeys(db.target)

\* C26: on the upsert path no step, of a load that commits or of one that
\* fails, takes a summoner_id out of the target relation, and a stored row whose
\* key does not occur in the table being loaded is in the relation afterwards
\* with every column, updated_at included, as it was.
C26_UpsertKeepsAbsentKeys ==
    [][UpsertPath =>
          /\ Keys(db.target) \subseteq Keys(db'.target)
          /\ Len(db.target) <= Len(db'.target)
          /\ \A i \in DOMAIN db.target :
                db.target[i].summoner_id \notin Keys(ldDf'.rows) =>
                    \E j \in DOMAIN db'.target : db'.target[j] = db.target[i]]_vars

\* a committed upsert that changed the relation next to a stored player whose
\* key was not in the loaded table
C26_Witness ==
    /\ UpsertPath /\ ldPc = "returned" /\ ~Empty(ldDf)
    /\ db.target # dbBefore.target
    /\ \E i \in DOMAIN dbBefore.target :
          /\ dbBefore.target[i].summoner_id \notin Keys(ldDf.rows)
          /\ \E j \in DOMAIN db.target :
                /\ db.target[j] = dbBefore.target[i]
                /\ db.target[j].updated_at < now

====
